---- MODULE Spec2Model ----
(***************************************************************************)
(* Model of the habit tracker: the storage layer (db.py) and the chat      *)
(* handlers built on it (bot.py).                                          *)
(*                                                                         *)
(* The three tables are the state.  users and habits are sets of rows with *)
(* their AUTOINCREMENT counters.  habit_logs is a bag of rows: the columns *)
(* id and created_at of a log row are read by no statement of the program, *)
(* so a row is its (habit_id, log_date, done) triple, and a bag keeps two  *)
(* rows with the same triple apart.                                        *)
(***************************************************************************)
EXTENDS Integers, Sequences, FiniteSets, Bags, TLC

\* ---------------------------------------------------------------- bounds
\* rows the habits table may hold (caps the AUTOINCREMENT counter)
MaxHabits == 2

\* ---------------------------------------------------------------- inputs
\* telegram user ids (message.from_user.id)
TgUsers == {501, 502}
\* telegram usernames (message.from_user.username), "None" for None
TgNames == {"ann", "None"}
\* the external ids and display names the callers of upsert_user pass
ExternalIds == {501, 502, 503}
DisplayNames == {"ann", "bob", "None"}
\* internal user ids a db.py caller may pass
UserIds == 1..2
\* habit ids a caller (or a stale or forged button) may pass
HabitIds == 1..MaxHabits
\* toordinal() of 2023-12-31 (a Sunday) and 2024-01-01 (a Monday)
Dates == {738885, 738886}
\* the days callers of weekly_status ask about: 2023-12-31 to 2024-01-02
StatusDates == {738885, 738886, 738887}
\* their non-empty ascending lists
DateLists ==
    {<<d>> : d \in StatusDates}
    \cup {p \in StatusDates \X StatusDates : p[1] < p[2]}
    \cup {<<738885, 738886, 738887>>}
\* the lists of habit ids callers of weekly_status pass
IdLists == {<<>>, <<1>>, <<2, 1>>}
\* the days the process may run on: 2023-12-26 to 2024-03-15
RefDates == 738880..738960
\* titles as sequences of characters
Titles == {<<"a", "b">>, <<" ", "a", "b", " ">>, <<"c", "d">>}
\* the title the callers of the completion log give their habits
LogTitles == {<<"a", "b">>}
Whitespace == {" "}
\* the day the process starts on
FirstDay == CHOOSE d \in Dates : \A e \in Dates : d <= e
\* the commands
CmdStart == <<"/", "s", "t", "a", "r", "t">>
CmdAdd == <<"/", "a", "d", "d">>
CmdDone == <<"/", "d", "o", "n", "e">>
CmdDelete == <<"/", "d", "e", "l", "e", "t", "e">>
CmdWeek == <<"/", "w", "e", "e", "k">>
\* message.text of the messages users send; <<>> stands for None (no text)
Texts == {CmdStart, CmdAdd, CmdDone, CmdDelete, CmdWeek, <<" ", "a", "b", " ">>, <<"a">>, <<>>}
\* the updates the dispatcher may have suspended handlers for at a time
Tasks == {"task1", "task2"}
\* the decimal digits
DigitChars == <<"0", "1", "2", "3", "4", "5", "6", "7", "8", "9">>
\* what follows the prefix in callback.data: the digits of a habit id, or no number
Payloads == {<<DigitChars[h + 1]>> : h \in HabitIds} \cup {<<"x">>}

\* ------------------------------------------------- datetime.date helpers
DaysBeforeMonth == <<0, 31, 59, 90, 120, 151, 181, 212, 243, 273, 304, 334>>
DaysInMonth == <<31, 28, 31, 30, 31, 30, 31, 31, 30, 31, 30, 31>>

\* date.fromordinal: ordinal -> <<year, month, day>> (proleptic Gregorian)
Ord2Ymd(ordinal) ==
    LET n0 == ordinal - 1
        n400 == n0 \div 146097
        r400 == n0 % 146097
        n100 == r400 \div 36524
        r100 == r400 % 36524
        n4 == r100 \div 1461
        r4 == r100 % 1461
        n1 == r4 \div 365
        n == r4 % 365
        year == n400 * 400 + 1 + n100 * 100 + n4 * 4 + n1
        leap == n1 = 3 /\ (n4 # 24 \/ n100 = 3)
        m0 == (n + 50) \div 32
        p0 == DaysBeforeMonth[m0] + (IF m0 > 2 /\ leap THEN 1 ELSE 0)
        month == IF p0 > n THEN m0 - 1 ELSE m0
        preceding == IF p0 > n
                     THEN p0 - (DaysInMonth[month] + (IF month = 2 /\ leap THEN 1 ELSE 0))
                     ELSE p0
    IN  IF n1 = 4 \/ n100 = 4
        THEN <<year - 1, 12, 31>>
        ELSE <<year, month, n - preceding + 1>>

\* the character codes of a number printed in `width` digits, zero padded
RECURSIVE Digits(_, _)
Digits(v, width) ==
    IF width = 0 THEN <<>> ELSE Append(Digits(v \div 10, width - 1), 48 + (v % 10))

\* date.isoformat(): "YYYY-MM-DD" as its sequence of character codes
isoformat(d) ==
    LET ymd == Ord2Ymd(d)
    IN  Digits(ymd[1], 4) \o <<45>> \o Digits(ymd[2], 2) \o <<45>> \o Digits(ymd[3], 2)

\* a comparison every pair passes
TextLeq_Always(a, b) == TRUE

\* comparison of two TEXT values (byte order), as BETWEEN uses it
RECURSIVE TextLeq(_, _)
TextLeq(a, b) ==
    IF a = <<>> THEN TRUE
    ELSE IF b = <<>> THEN FALSE
    ELSE IF Head(a) < Head(b) THEN TRUE
    ELSE IF Head(a) > Head(b) THEN FALSE
    ELSE TextLeq(Tail(a), Tail(b))

\* date.isoweekday(): Monday is 1
weekday_Isoweekday(d) == ((d + 6) % 7) + 1

\* date.weekday(): Monday is 0
weekday(d) == (d + 6) % 7

\* ------------------------------------------------------- str helpers
RECURSIVE lstrip(_)
lstrip(s) == IF s # <<>> /\ Head(s) \in Whitespace THEN lstrip(Tail(s)) ELSE s

RECURSIVE rstrip(_)
rstrip(s) ==
    IF s # <<>> /\ s[Len(s)] \in Whitespace THEN rstrip(SubSeq(s, 1, Len(s) - 1)) ELSE s

\* str.lstrip() in the place of str.strip()
strip_LeftOnly(s) == lstrip(s)

\* str.strip()
strip(s) == rstrip(lstrip(s))


\* ---------------------------------------------------------------- state
VARIABLES
    users,        \* table users: rows [id, tg_user_id, tg_username]
    users_seq,    \* AUTOINCREMENT counter of users
    habits,       \* table habits: rows [id, user_id, title, is_active]
    habits_seq,   \* AUTOINCREMENT counter of habits
    habit_logs,   \* table habit_logs: bag of rows [habit_id, log_date, done]
    last,         \* the last call or handler run and what it returned
    today,        \* date.today() of the process
    fsm,          \* the dispatcher's FSM state of each telegram user
    pending,      \* the handlers suspended before send_week_view, with their locals
    toggled       \* history: the last result of a toggle button per (habit, date)

tables == <<users, users_seq, habits, habits_seq, habit_logs>>
chat == <<today, fsm, pending, toggled>>
vars == <<users, users_seq, habits, habits_seq, habit_logs, last, today, fsm, pending, toggled>>

\* ------------------------------------------------------------ bag helpers
Copies(logs, row) == IF row \in DOMAIN logs THEN logs[row] ELSE 0

\* the rows of the log table for one (habit_id, log_date)
LogRows(logs, habit_id, log_date) ==
    {r \in DOMAIN logs : r.habit_id = habit_id /\ r.log_date = log_date}

\* number of rows of the log table for one (habit_id, log_date)
LogCount(logs, habit_id, log_date) ==
    Copies(logs, [habit_id |-> habit_id, log_date |-> log_date, done |-> 0])
    + Copies(logs, [habit_id |-> habit_id, log_date |-> log_date, done |-> 1])

\* DELETE FROM habit_logs WHERE habit_id = ? AND log_date = ?
DeleteLog(logs, habit_id, log_date) ==
    [r \in (DOMAIN logs) \ LogRows(logs, habit_id, log_date) |-> logs[r]]

\* --------------------------------------------------------------- schema
\* the table declared without UNIQUE(habit_id, log_date)
LogConflict_NoUnique(logs, habit_id, log_date) == FALSE

\* UNIQUE(habit_id, log_date): a row for the pair is already there
LogConflict(logs, habit_id, log_date) == LogRows(logs, habit_id, log_date) # {}

\* UNIQUE on users.tg_user_id
UserConflict(us, tg_user_id) == \E r \in us : r.tg_user_id = tg_user_id

\* the statement writing done = 0
UpsertLog_DoneZero(logs, habit_id, log_date) ==
    LET row == [habit_id |-> habit_id, log_date |-> log_date, done |-> 0]
    IN  DeleteLog(logs, habit_id, log_date) (+) SetToBag({row})

\* INSERT INTO habit_logs (habit_id, log_date, done) VALUES (?, ?, 1)
\*   ON CONFLICT(habit_id, log_date) DO UPDATE SET done = 1
UpsertLog(logs, habit_id, log_date) ==
    LET row == [habit_id |-> habit_id, log_date |-> log_date, done |-> 1]
    IN  IF LogConflict(logs, habit_id, log_date)
        THEN DeleteLog(logs, habit_id, log_date)
             (+) [r \in {row} |-> LogCount(logs, habit_id, log_date)]
        ELSE logs (+) SetToBag({row})

\* ------------------------------------------------------------- queries
\* the WHERE clause without its is_active = 1
OwnedActive_AnyState(hs, user_id, habit_id) ==
    {h \in hs : h.id = habit_id /\ h.user_id = user_id}

\* the WHERE clause without its user_id = ?
OwnedActive_AnyUser(hs, user_id, habit_id) ==
    {h \in hs : h.id = habit_id /\ h.is_active = 1}

\* the habit rows a statement's WHERE id = ? AND user_id = ? AND is_active = 1 selects
OwnedActive(hs, user_id, habit_id) ==
    {h \in hs : h.id = habit_id /\ h.user_id = user_id /\ h.is_active = 1}

\* ORDER BY id DESC
RECURSIVE OrderById_Desc(_)
OrderById_Desc(rows) ==
    IF rows = {} THEN <<>>
    ELSE LET first == CHOOSE r \in rows : \A q \in rows : r.id >= q.id
         IN  <<[id |-> first.id, title |-> first.title]>> \o OrderById_Desc(rows \ {first})

\* rows in ascending id order, projected on (id, title)
RECURSIVE OrderById(_)
OrderById(rows) ==
    IF rows = {} THEN <<>>
    ELSE LET first == CHOOSE r \in rows : \A q \in rows : r.id <= q.id
         IN  <<[id |-> first.id, title |-> first.title]>> \o OrderById(rows \ {first})

\* the SELECT without its is_active = 1
list_habits_Inactive(hs, user_id) == OrderById({h \in hs : h.user_id = user_id})

list_habits(hs, user_id) ==
    OrderById({h \in hs : h.user_id = user_id /\ h.is_active = 1})

\* the elements of a sequence
Range(s) == {s[i] : i \in DOMAIN s}

weekly_status(logs, habit_ids, week_dates) ==
    IF habit_ids = <<>> THEN <<>>
    ELSE LET lo == isoformat(week_dates[1])
             hi == isoformat(week_dates[Len(week_dates)])
             rows == {r \in DOMAIN logs :
                        /\ r.habit_id \in Range(habit_ids)
                        /\ TextLeq(lo, r.log_date) /\ TextLeq(r.log_date, hi)}
             keys == {<<r.habit_id, r.log_date>> : r \in rows}
         IN  [k \in keys |-> (CHOOSE r \in rows : <<r.habit_id, r.log_date>> = k).done]

\* ----------------------------------------------------- statement results
\* INSERT OR REPLACE INTO users
UpsertUserRows_Replace(us, seq, tg_user_id, tg_username) ==
    {r \in us : r.tg_user_id # tg_user_id}
    \cup {[id |-> seq + 1, tg_user_id |-> tg_user_id, tg_username |-> tg_username]}

\* ON CONFLICT(tg_user_id) DO NOTHING
UpsertUserRows_DoNothing(us, seq, tg_user_id, tg_username) ==
    IF UserConflict(us, tg_user_id) THEN us
    ELSE us \cup {[id |-> seq + 1, tg_user_id |-> tg_user_id, tg_username |-> tg_username]}

\* upsert_user: the users table after the INSERT ... ON CONFLICT DO UPDATE
UpsertUserRows(us, seq, tg_user_id, tg_username) ==
    IF UserConflict(us, tg_user_id)
    THEN {IF r.tg_user_id = tg_user_id THEN [r EXCEPT !.tg_username = tg_username] ELSE r :
            r \in us}
    ELSE us \cup {[id |-> seq + 1, tg_user_id |-> tg_user_id, tg_username |-> tg_username]}

UpsertUserSeq(us, seq, tg_user_id) == IF UserConflict(us, tg_user_id) THEN seq ELSE seq + 1

\* upsert_user: SELECT id FROM users WHERE tg_user_id = ?
UserIdOf(us, tg_user_id) == (CHOOSE r \in us : r.tg_user_id = tg_user_id).id

\* the INSERT never committed
MarkDoneForUserLogs_NoCommit(hs, logs, user_id, habit_id, target_date) == logs

\* the SELECT without its h.id = ?: a row for every active habit of the user
RECURSIVE UpsertAll(_, _, _)
UpsertAll(logs, ids, log_date) ==
    IF ids = {} THEN logs
    ELSE LET i == CHOOSE x \in ids : TRUE
         IN  UpsertAll(UpsertLog(logs, i, log_date), ids \ {i}, log_date)

MarkDoneForUserLogs_EveryHabit(hs, logs, user_id, habit_id, target_date) ==
    IF OwnedActive(hs, user_id, habit_id) = {} THEN logs
    ELSE UpsertAll(logs, {h.id : h \in {x \in hs : x.user_id = user_id /\ x.is_active = 1}},
                   isoformat(target_date))

\* the SELECT without its h.user_id = ?
MarkDoneForUserLogs_AnyOwner(hs, logs, user_id, habit_id, target_date) ==
    IF {h \in hs : h.id = habit_id /\ h.is_active = 1} = {} THEN logs
    ELSE UpsertLog(logs, habit_id, isoformat(target_date))

\* mark_done_for_user: the log table after the INSERT ... SELECT ... ON CONFLICT
MarkDoneForUserLogs(hs, logs, user_id, habit_id, target_date) ==
    IF OwnedActive(hs, user_id, habit_id) = {} THEN logs
    ELSE UpsertLog(logs, habit_id, isoformat(target_date))

\* mark_done_for_user: cursor.rowcount > 0
MarkDoneForUserRet(hs, user_id, habit_id) == OwnedActive(hs, user_id, habit_id) # {}

\* the row of (habit_id, date) is present with done = 1
IsDone(logs, habit_id, target_date) ==
    \E r \in LogRows(logs, habit_id, isoformat(target_date)) : r.done = 1

\* toggle_done_for_user: "None", "marked" or "removed"
ToggleRet(hs, logs, user_id, habit_id, target_date) ==
    IF OwnedActive(hs, user_id, habit_id) = {} THEN "None"
    ELSE IF IsDone(logs, habit_id, target_date) THEN "removed"
    ELSE "marked"

\* toggle_done_for_user: the log table it leaves
ToggleLogs(hs, logs, user_id, habit_id, target_date) ==
    IF OwnedActive(hs, user_id, habit_id) = {} THEN logs
    ELSE IF IsDone(logs, habit_id, target_date)
         THEN DeleteLog(logs, habit_id, isoformat(target_date))
         ELSE MarkDoneForUserLogs(hs, logs, user_id, habit_id, target_date)

\* a DELETE in the place of the UPDATE
DeactivateRows_HardDelete(hs, user_id, habit_id) == hs \ OwnedActive(hs, user_id, habit_id)

\* deactivate_habit_for_user: the habits table it leaves
DeactivateRows(hs, user_id, habit_id) ==
    {IF h \in OwnedActive(hs, user_id, habit_id) THEN [h EXCEPT !.is_active = 0] ELSE h :
        h \in hs}

\* ------------------------------------------------------------- db.py calls
Call(op, args, ret) == [op |-> op, args |-> args, ret |-> ret]

init_db ==
    /\ users = {}
    /\ users_seq = 0
    /\ habits = {}
    /\ habits_seq = 0
    /\ habit_logs = EmptyBag

upsert_user(tg_user_id, tg_username) ==
    /\ users' = UpsertUserRows(users, users_seq, tg_user_id, tg_username)
    /\ users_seq' = UpsertUserSeq(users, users_seq, tg_user_id)
    /\ last' = Call("upsert_user", <<tg_user_id, tg_username>>, UserIdOf(users', tg_user_id))
    /\ UNCHANGED <<habits, habits_seq, habit_logs>>
    /\ UNCHANGED chat

add_habit(user_id, title) ==
    /\ habits_seq < MaxHabits
    /\ habits' = habits \cup {[id |-> habits_seq + 1, user_id |-> user_id,
                               title |-> strip(title), is_active |-> 1]}
    /\ habits_seq' = habits_seq + 1
    /\ last' = Call("add_habit", <<user_id, title>>, habits_seq + 1)
    /\ UNCHANGED <<users, users_seq, habit_logs>>
    /\ UNCHANGED chat

mark_done(habit_id, target_date) ==
    /\ habit_logs' = UpsertLog(habit_logs, habit_id, isoformat(target_date))
    /\ last' = Call("mark_done", <<habit_id, target_date>>, TRUE)
    /\ UNCHANGED <<users, users_seq, habits, habits_seq>>
    /\ UNCHANGED chat

mark_done_for_user(user_id, habit_id, target_date) ==
    /\ habit_logs' = MarkDoneForUserLogs(habits, habit_logs, user_id, habit_id, target_date)
    /\ last' = Call("mark_done_for_user", <<user_id, habit_id, target_date>>,
                    MarkDoneForUserRet(habits, user_id, habit_id))
    /\ UNCHANGED <<users, users_seq, habits, habits_seq>>
    /\ UNCHANGED chat

toggle_done_for_user(user_id, habit_id, target_date) ==
    /\ habit_logs' = ToggleLogs(habits, habit_logs, user_id, habit_id, target_date)
    /\ last' = Call("toggle_done_for_user", <<user_id, habit_id, target_date>>,
                    ToggleRet(habits, habit_logs, user_id, habit_id, target_date))
    /\ UNCHANGED <<users, users_seq, habits, habits_seq>>
    /\ UNCHANGED chat

deactivate_habit_for_user(user_id, habit_id) ==
    /\ habits' = DeactivateRows(habits, user_id, habit_id)
    /\ last' = Call("deactivate_habit_for_user", <<user_id, habit_id>>,
                    OwnedActive(habits, user_id, habit_id) # {})
    /\ UNCHANGED <<users, users_seq, habits_seq, habit_logs>>
    /\ UNCHANGED chat

\* ------------------------------------------- db.py driven by any caller
\* a process that has not received an update yet
InitChat ==
    /\ today = FirstDay
    /\ fsm = [tg \in TgUsers |-> "None"]
    /\ pending = {}
    /\ toggled = [k \in HabitIds \X {isoformat(d) : d \in Dates} |-> "None"]

InitDb ==
    /\ init_db
    /\ InitChat
    /\ last = Call("init_db", <<>>, "None")

\* the habit repository and the completion log
NextDb ==
    \/ \E u \in UserIds, t \in LogTitles : add_habit(u, t)
    \/ \E h \in HabitIds, d \in Dates : mark_done(h, d)
    \/ \E u \in UserIds, h \in HabitIds, d \in Dates : mark_done_for_user(u, h, d)
    \/ \E u \in UserIds, h \in HabitIds, d \in Dates : toggle_done_for_user(u, h, d)
    \/ \E u \in UserIds, h \in HabitIds : deactivate_habit_for_user(u, h)

SpecDb == InitDb /\ [][NextDb]_vars

\* the habit repository alone, with every title
NextHabits ==
    \/ \E u \in UserIds, t \in Titles : add_habit(u, t)
    \/ \E u \in UserIds, h \in HabitIds : deactivate_habit_for_user(u, h)

SpecHabits == InitDb /\ [][NextHabits]_vars

\* a call of weekly_status by any caller
WeeklyStatus(habit_ids, days) ==
    /\ last' = Call("weekly_status", <<habit_ids, days>>, weekly_status(habit_logs, habit_ids, days))
    /\ UNCHANGED <<tables, chat>>

\* the completion log as weekly_status reads it
NextStatus ==
    \/ \E h \in HabitIds, d \in StatusDates : mark_done(h, d)
    \/ \E ids \in IdLists, days \in DateLists : WeeklyStatus(ids, days)

SpecStatus == InitDb /\ [][NextStatus]_vars

\* the users table alone
NextUsers == \E tg \in ExternalIds, name \in DisplayNames : upsert_user(tg, name)

SpecUsers == InitDb /\ [][NextUsers]_vars

\* ------------------------------------------------------------- bot.py
\* week_dates(today): the Monday of today's week and the six days after it
week_dates(day) ==
    LET monday == day - weekday(day)
    IN  [i \in 1..7 |-> monday + (i - 1)]

\* a call of week_dates(date.today())
WeekDates ==
    /\ last' = Call("week_dates", <<today>>, week_dates(today))
    /\ UNCHANGED <<tables, chat>>

\* the process on any day of the calendar
InitWeek ==
    /\ init_db
    /\ today \in RefDates
    /\ fsm = [tg \in TgUsers |-> "None"]
    /\ pending = {}
    /\ toggled = [k \in HabitIds \X {isoformat(d) : d \in Dates} |-> "None"]
    /\ last = Call("main", <<>>, "None")

NextWeek == WeekDates

SpecWeek == InitWeek /\ [][NextWeek]_vars

\* statuses.get(key, 0)
StatusGet(statuses, key) == IF key \in DOMAIN statuses THEN statuses[key] ELSE 0

\* build_week_table: the span of the week and a row of seven cells per habit
build_week_table(listing, statuses, days) ==
    [span |-> <<days[1], days[Len(days)]>>,
     rows |-> [i \in DOMAIN listing |->
                [title |-> SubSeq(listing[i].title, 1,
                                  IF Len(listing[i].title) < 15 THEN Len(listing[i].title) ELSE 15),
                 cells |-> [j \in DOMAIN days |->
                             IF StatusGet(statuses, <<listing[i].id, isoformat(days[j])>>) = 1
                             THEN 1 ELSE 0]]]]

\* the ids of a listing, in its order
IdsOf(listing) == [i \in DOMAIN listing |-> listing[i].id]

\* send_week_view: the message it sends
WeekView(hs, logs, day, user_id) ==
    LET listing == list_habits(hs, user_id)
        days == week_dates(day)
    IN  IF listing = <<>> THEN "No habits yet"
        ELSE build_week_table(listing, weekly_status(logs, IdsOf(listing), days), days)

\* build_done_keyboard: a button per habit, marked when done today
build_done_keyboard(listing, logs, day) ==
    LET statuses == weekly_status(logs, IdsOf(listing), <<day>>)
    IN  [i \in DOMAIN listing |->
            [marker |-> StatusGet(statuses, <<listing[i].id, isoformat(day)>>) = 1,
             title |-> listing[i].title,
             callback_data |-> <<"done:", listing[i].id>>]]

\* the keyboard of delete_command
DeleteKeyboard(listing) ==
    [i \in DOMAIN listing |->
        [title |-> listing[i].title, callback_data |-> <<"delete:", listing[i].id>>]]

\* text.split(maxsplit=1)[0], the word a Command filter reads
RECURSIVE UntilSpace(_)
UntilSpace(s) ==
    IF s = <<>> \/ Head(s) \in Whitespace THEN <<>> ELSE <<Head(s)>> \o UntilSpace(Tail(s))

FirstWord(text) == UntilSpace(lstrip(text))

\* the title handler registered without its state filter
Route_AnyState(state, text) ==
    IF FirstWord(text) = CmdStart THEN "start"
    ELSE IF FirstWord(text) = CmdAdd THEN "add_command"
    ELSE "handle_habit_title"

\* the handler the dispatcher gives a message to: the first registered one
\* whose filter matches
Route(state, text) ==
    IF FirstWord(text) = CmdStart THEN "start"
    ELSE IF FirstWord(text) = CmdAdd THEN "add_command"
    ELSE IF state = "waiting_for_title" THEN "handle_habit_title"
    ELSE IF FirstWord(text) = CmdDone THEN "done_command"
    ELSE IF FirstWord(text) = CmdDelete THEN "delete_command"
    ELSE IF FirstWord(text) = CmdWeek THEN "week_command"
    ELSE "unhandled"

\* int(s) raises ValueError
IsInvalidInt(s) == s = <<>> \/ \E i \in DOMAIN s : \A k \in DOMAIN DigitChars : s[i] # DigitChars[k]

\* int(s) of a string of decimal digits
RECURSIVE ParseInt(_)
ParseInt(s) ==
    IF s = <<>> THEN 0
    ELSE 10 * ParseInt(SubSeq(s, 1, Len(s) - 1))
         + ((CHOOSE k \in DOMAIN DigitChars : DigitChars[k] = s[Len(s)]) - 1)

\* the locals of a handler suspended in its answers, before send_week_view
Frame(op, user_id, habit_id, result) ==
    [op |-> op, user_id |-> user_id, habit_id |-> habit_id, result |-> result]

\* a handler that will suspend finds a task free, or is the twin of a suspended one
CanSuspend(frame) == frame \in pending \/ Cardinality(pending) < Cardinality(Tasks)

\* the part of every handler that resolves the sender
Resolve(tg, name) ==
    /\ users' = UpsertUserRows(users, users_seq, tg, name)
    /\ users_seq' = UpsertUserSeq(users, users_seq, tg)

\* the internal id upsert_user returns to the handler
Resolved(tg) == UserIdOf(users', tg)

start(tg, name, text) ==
    /\ Route(fsm[tg], text) = "start"
    /\ Resolve(tg, name)
    /\ last' = Call("start", <<tg, text>>, "Habit tracker bot.")
    /\ UNCHANGED <<habits, habits_seq, habit_logs, chat>>

add_command(tg, name, text) ==
    /\ Route(fsm[tg], text) = "add_command"
    /\ Resolve(tg, name)
    /\ fsm' = [fsm EXCEPT ![tg] = "waiting_for_title"]
    /\ last' = Call("add_command", <<tg, text>>, "Send habit name")
    /\ UNCHANGED <<habits, habits_seq, habit_logs, today, pending, toggled>>

\* if not title
TooShort_Empty(title) == Len(title) < 1

\* if len(title) < 2
TooShort(title) == Len(title) < 2

handle_habit_title(tg, name, text) ==
    /\ Route(fsm[tg], text) = "handle_habit_title"
    /\ Resolve(tg, name)
    /\ LET title == strip(text)
       IN  IF TooShort(title)
           THEN /\ last' = Call("handle_habit_title", <<tg, text>>, "Habit name is too short")
                /\ UNCHANGED <<habits, habits_seq, habit_logs, chat>>
           ELSE /\ habits_seq < MaxHabits
                /\ habits' = habits \cup {[id |-> habits_seq + 1, user_id |-> Resolved(tg),
                                           title |-> strip(title), is_active |-> 1]}
                /\ habits_seq' = habits_seq + 1
                /\ fsm' = [fsm EXCEPT ![tg] = "None"]
                /\ CanSuspend(Frame("handle_habit_title", Resolved(tg), habits_seq + 1, "added"))
                /\ pending' = pending \cup {Frame("handle_habit_title", Resolved(tg),
                                                    habits_seq + 1, "added")}
                /\ last' = Call("handle_habit_title", <<tg, text>>, habits_seq + 1)
                /\ UNCHANGED <<habit_logs, today, toggled>>

done_command(tg, name, text) ==
    /\ Route(fsm[tg], text) = "done_command"
    /\ Resolve(tg, name)
    /\ LET listing == list_habits(habits, Resolved(tg))
       IN  last' = Call("done_command", <<tg, text>>,
                        IF listing = <<>> THEN "No habits yet"
                        ELSE build_done_keyboard(listing, habit_logs, today))
    /\ UNCHANGED <<habits, habits_seq, habit_logs, chat>>

done_callback(tg, name, payload) ==
    IF IsInvalidInt(payload)
    THEN /\ last' = Call("done_callback", <<tg, payload>>, "Invalid habit")
         /\ UNCHANGED <<tables, chat>>
    ELSE /\ Resolve(tg, name)
         /\ LET user_id == Resolved(tg)
                habit_id == ParseInt(payload)
                toggle_result == ToggleRet(habits, habit_logs, user_id, habit_id, today)
            IN  /\ habit_logs' = ToggleLogs(habits, habit_logs, user_id, habit_id, today)
                /\ last' = Call("done_callback", <<tg, payload>>, toggle_result)
                /\ IF toggle_result = "None"
                   THEN UNCHANGED <<pending, toggled>>
                   ELSE /\ CanSuspend(Frame("done_callback", user_id, habit_id, toggle_result))
                        /\ pending' = pending \cup {Frame("done_callback", user_id, habit_id,
                                                           toggle_result)}
                        /\ toggled' = [toggled EXCEPT ![<<habit_id, isoformat(today)>>] =
                                                          toggle_result]
         /\ UNCHANGED <<habits, habits_seq, today, fsm>>

delete_command(tg, name, text) ==
    /\ Route(fsm[tg], text) = "delete_command"
    /\ Resolve(tg, name)
    /\ LET listing == list_habits(habits, Resolved(tg))
       IN  last' = Call("delete_command", <<tg, text>>,
                        IF listing = <<>> THEN "No habits to delete."
                        ELSE DeleteKeyboard(listing))
    /\ UNCHANGED <<habits, habits_seq, habit_logs, chat>>

delete_callback(tg, name, payload) ==
    IF IsInvalidInt(payload)
    THEN /\ last' = Call("delete_callback", <<tg, payload>>, "Invalid habit")
         /\ UNCHANGED <<tables, chat>>
    ELSE /\ Resolve(tg, name)
         /\ LET user_id == Resolved(tg)
                habit_id == ParseInt(payload)
                deleted == OwnedActive(habits, user_id, habit_id) # {}
            IN  /\ habits' = DeactivateRows(habits, user_id, habit_id)
                /\ last' = Call("delete_callback", <<tg, payload>>, deleted)
                /\ deleted => CanSuspend(Frame("delete_callback", user_id, habit_id, "deleted"))
                /\ pending' = IF deleted
                              THEN pending \cup {Frame("delete_callback", user_id, habit_id,
                                                       "deleted")}
                              ELSE pending
         /\ UNCHANGED <<habits_seq, habit_logs, today, fsm, toggled>>

week_command(tg, name, text) ==
    /\ Route(fsm[tg], text) = "week_command"
    /\ Resolve(tg, name)
    /\ last' = Call("week_command", <<tg, text>>,
                    WeekView(habits, habit_logs, today, Resolved(tg)))
    /\ UNCHANGED <<habits, habits_seq, habit_logs, chat>>

\* a message no handler's filter matches is dropped by the dispatcher
unhandled(tg, text) ==
    /\ Route(fsm[tg], text) = "unhandled"
    /\ last' = Call("unhandled", <<tg, text>>, "None")
    /\ UNCHANGED <<tables, chat>>

\* a handler resumes after its answers and sends the week view
send_week_view(frame) ==
    /\ frame \in pending
    /\ pending' = pending \ {frame}
    /\ last' = Call("send_week_view", <<frame.user_id>>,
                    WeekView(habits, habit_logs, today, frame.user_id))
    /\ UNCHANGED <<tables, today, fsm, toggled>>

\* the calendar day of the process changes
Midnight ==
    /\ today + 1 \in Dates
    /\ today' = today + 1
    /\ UNCHANGED <<tables, last, fsm, pending, toggled>>

\* ------------------------------------------------- the bot, polling
Init ==
    /\ init_db
    /\ InitChat
    /\ last = Call("main", <<>>, "None")

Next ==
    \/ \E tg \in TgUsers, name \in TgNames, text \in Texts : start(tg, name, text)
    \/ \E tg \in TgUsers, name \in TgNames, text \in Texts : add_command(tg, name, text)
    \/ \E tg \in TgUsers, name \in TgNames, text \in Texts : handle_habit_title(tg, name, text)
    \/ \E tg \in TgUsers, name \in TgNames, text \in Texts : done_command(tg, name, text)
    \/ \E tg \in TgUsers, name \in TgNames, p \in Payloads : done_callback(tg, name, p)
    \/ \E tg \in TgUsers, name \in TgNames, text \in Texts : delete_command(tg, name, text)
    \/ \E tg \in TgUsers, name \in TgNames, p \in Payloads : delete_callback(tg, name, p)
    \/ \E tg \in TgUsers, name \in TgNames, text \in Texts : week_command(tg, name, text)
    \/ \E f \in pending : send_week_view(f)
    \/ Midnight

Spec == Init /\ [][Next]_vars

\* the bot as two users drive it: one adds habits, and both press toggle
\* buttons, fresh, stale or forged, on one day
RaceNames == {"ann"}
RaceTexts == {CmdAdd, <<" ", "a", "b", " ">>}
RaceWriters == {501}

NextRace ==
    \/ \E tg \in RaceWriters, name \in RaceNames, text \in RaceTexts : add_command(tg, name, text)
    \/ \E tg \in RaceWriters, name \in RaceNames, text \in RaceTexts :
          handle_habit_title(tg, name, text)
    \/ \E tg \in TgUsers, name \in RaceNames, p \in Payloads : done_callback(tg, name, p)
    \/ \E f \in pending : send_week_view(f)

SpecRace == Init /\ [][NextRace]_vars

\* what the users of the two-step conversation send: /add, a padded title,
\* titles too short, and no text
TitleTexts == {CmdAdd, <<" ", "a", "b", " ">>, <<"a">>, <<" ">>, <<>>}

\* the conversation that creates a habit, held by two users
NextTitle ==
    \/ \E tg \in TgUsers, name \in RaceNames, text \in TitleTexts : add_command(tg, name, text)
    \/ \E tg \in TgUsers, name \in RaceNames, text \in TitleTexts :
          handle_habit_title(tg, name, text)
    \/ \E tg \in TgUsers, text \in TitleTexts : unhandled(tg, text)
    \/ \E f \in pending : send_week_view(f)

SpecTitle == Init /\ [][NextTitle]_vars

\* the bot as one user writes to it: every message handler, no buttons
NextChat ==
    \/ \E tg \in RaceWriters, name \in RaceNames, text \in Texts : start(tg, name, text)
    \/ \E tg \in RaceWriters, name \in RaceNames, text \in Texts : add_command(tg, name, text)
    \/ \E tg \in RaceWriters, name \in RaceNames, text \in Texts :
          handle_habit_title(tg, name, text)
    \/ \E tg \in RaceWriters, name \in RaceNames, text \in Texts : done_command(tg, name, text)
    \/ \E tg \in RaceWriters, name \in RaceNames, text \in Texts :
          delete_command(tg, name, text)
    \/ \E tg \in RaceWriters, name \in RaceNames, text \in Texts : week_command(tg, name, text)
    \/ \E tg \in RaceWriters, text \in Texts : unhandled(tg, text)
    \/ \E f \in pending : send_week_view(f)

SpecChat == Init /\ [][NextChat]_vars

\* the life of a user's habits in the chat: added, toggled from fresh and
\* stale buttons on two days, deleted, viewed; the user waits for the week
\* view of one interaction before starting the next that sends one
OneAtATime == Cardinality(pending') <= 1

NextLife ==
    \/ \E tg \in RaceWriters, name \in RaceNames, text \in RaceTexts :
          add_command(tg, name, text) /\ OneAtATime
    \/ \E tg \in RaceWriters, name \in RaceNames, text \in RaceTexts :
          handle_habit_title(tg, name, text) /\ OneAtATime
    \/ \E tg \in RaceWriters, name \in RaceNames, p \in Payloads :
          done_callback(tg, name, p) /\ OneAtATime
    \/ \E tg \in RaceWriters, name \in RaceNames, p \in Payloads :
          delete_callback(tg, name, p) /\ OneAtATime
    \/ \E tg \in RaceWriters, name \in RaceNames : week_command(tg, name, CmdWeek)
    \/ \E f \in pending : send_week_view(f)
    \/ Midnight

SpecLife == Init /\ [][NextLife]_vars

\* the toggle buttons over two days: one user adds habits, and both users
\* press buttons, fresh, stale or forged
NextToggle ==
    \/ \E tg \in RaceWriters, name \in RaceNames, text \in RaceTexts :
          add_command(tg, name, text) /\ OneAtATime
    \/ \E tg \in RaceWriters, name \in RaceNames, text \in RaceTexts :
          handle_habit_title(tg, name, text) /\ OneAtATime
    \/ \E tg \in TgUsers, name \in RaceNames, p \in Payloads :
          done_callback(tg, name, p) /\ OneAtATime
    \/ \E f \in pending : send_week_view(f)
    \/ Midnight

SpecToggle == Init /\ [][NextToggle]_vars

\* ------------------------------------------------------------ the claims
\* the step just taken was a call of toggle_done_for_user
ToggleStep == last'.op = "toggle_done_for_user"

\* the step just taken was a call of deactivate_habit_for_user
DeactivateStep == last'.op = "deactivate_habit_for_user"

\* the step just taken was a call of add_habit
AddStep == last'.op = "add_habit"

\* habit h exists, is active and belongs to user u
ActiveHabitOf(hs, u, h) == \E r \in hs : r.id = h /\ r.user_id = u /\ r.is_active = 1

\* s is t without its leading and trailing whitespace
IsTrimOf(s, t) ==
    /\ s # <<>> => s[1] \notin Whitespace /\ s[Len(s)] \notin Whitespace
    /\ \E i \in 1..(Len(t) + 1) :
         /\ i + Len(s) - 1 <= Len(t)
         /\ s = SubSeq(t, i, i + Len(s) - 1)
         /\ \A k \in 1..Len(t) : (k < i \/ k > i + Len(s) - 1) => t[k] \in Whitespace

\* the trimmed forms of the titles callers pass
Trimmed == {<<"a", "b">>, <<"c", "d">>}

\* the mapping {(habit_id, isoformat(d)): 1}
OneDone(habit_id, d) == [k \in {<<habit_id, isoformat(d)>>} |-> 1]

\* C1: a toggle of an active habit of the caller, called when (h, d) has no log
\* row, returns "marked" and leaves the pair done, so that weekly_status([h], [d])
\* maps it to 1; called when the pair is done it returns "removed" and leaves no
\* row, so that weekly_status([h], [d]) is the empty mapping.  The pair has these
\* two observable states only and every successful call changes the state.
C1_TogglePureToggle ==
    [][ToggleStep /\ ActiveHabitOf(habits, last'.args[1], last'.args[2]) =>
        LET h == last'.args[2]
            d == last'.args[3]
            before == weekly_status(habit_logs, <<h>>, <<d>>)
            after == weekly_status(habit_logs', <<h>>, <<d>>)
        IN  /\ before \in {<<>>, OneDone(h, d)}
            /\ after \in {<<>>, OneDone(h, d)}
            /\ after # before
            /\ LogRows(habit_logs, h, isoformat(d)) = {} =>
                 last'.ret = "marked" /\ IsDone(habit_logs', h, d) /\ after = OneDone(h, d)
            /\ IsDone(habit_logs, h, d) =>
                 /\ last'.ret = "removed"
                 /\ LogRows(habit_logs', h, isoformat(d)) = {}
                 /\ after = <<>>]_vars

\* a successful toggle found the pair undone, marked it, and the row is there
C1_Witness ==
    /\ last.op = "toggle_done_for_user"
    /\ last.ret = "marked"
    /\ weekly_status(habit_logs, <<last.args[2]>>, <<last.args[3]>>)
         = OneDone(last.args[2], last.args[3])

DoneCallbackStep == last'.op = "done_callback"

\* C3: toggle handlers that race on one (habit, date), each suspended in its
\* answers while others run, never fail and lose no update: every press gets
\* one of the handler's answers; a successful press returns "marked" exactly
\* when the pair was undone and leaves it the other way round; it returns the
\* opposite of the last successful press of the pair; and when the handler of
\* that last press is still suspended and had marked the pair, this press
\* returns "removed" and the pair ends undone.  The pair never has two rows.
C3_RacingToggles ==
    [][DoneCallbackStep =>
        /\ last'.ret \in {"Invalid habit", "None", "marked", "removed"}
        /\ last'.ret \in {"marked", "removed"} =>
             LET h == ParseInt(last'.args[2])
                 k == <<h, isoformat(today)>>
             IN  /\ last'.ret = "marked" <=> LogRows(habit_logs, h, isoformat(today)) = {}
                 /\ last'.ret = "marked" <=> LogCount(habit_logs', h, isoformat(today)) = 1
                 /\ last'.ret = "removed" <=> LogRows(habit_logs', h, isoformat(today)) = {}
                 /\ toggled[k] # "None" => last'.ret # toggled[k]
                 /\ \A g \in pending :
                      g.op = "done_callback" /\ g.habit_id = h /\ g.result = toggled[k] =>
                        /\ last'.ret # g.result
                        /\ g.result = "marked" =>
                             last'.ret = "removed" /\ ~IsDone(habit_logs', h, today)
        /\ \A k \in DOMAIN toggled' :
             toggled'[k] # "None" =>
               (toggled'[k] = "marked" <=> LogCount(habit_logs', k[1], k[2]) = 1)]_vars

\* two toggle handlers of one habit are suspended at once, the first with
\* "marked" and the second with "removed", and the pair is undone again
C3_Witness ==
    /\ last.op = "done_callback"
    /\ last.ret = "removed"
    /\ \E f, g \in pending :
         /\ f.op = "done_callback" /\ g.op = "done_callback"
         /\ f.habit_id = g.habit_id
         /\ f.result = "marked" /\ g.result = "removed"
         /\ LogRows(habit_logs, f.habit_id, isoformat(today)) = {}

\* C4: the log table holds at most one row for each (habit id, date).
C4_OneRowPerHabitDate ==
    \A r \in DOMAIN habit_logs : LogCount(habit_logs, r.habit_id, r.log_date) <= 1

\* a mark has acted and its habit has exactly one row on every date
C4_Witness ==
    /\ last.op \in {"mark_done", "mark_done_for_user"}
    /\ last.ret = TRUE
    /\ \A d \in Dates : LogCount(habit_logs, last.args[Len(last.args) - 1], isoformat(d)) = 1

\* C5: a toggle of a habit that does not exist, is inactive or belongs to
\* another user returns None and changes no table.
C5_ToggleNotFound ==
    [][ToggleStep =>
        /\ ~ActiveHabitOf(habits, last'.args[1], last'.args[2]) =>
             last'.ret = "None" /\ UNCHANGED tables
        /\ last'.ret = "None" => ~ActiveHabitOf(habits, last'.args[1], last'.args[2])]_vars

\* a toggle by the owner of an inactive habit that has a log row returned None
C5_Witness ==
    /\ last.op = "toggle_done_for_user"
    /\ last.ret = "None"
    /\ \E h \in habits :
         /\ h.id = last.args[2] /\ h.user_id = last.args[1] /\ h.is_active = 0
         /\ IsDone(habit_logs, h.id, last.args[3])

\* the habit row with this id (the id is the primary key)
HabitRow(hs, habit_id) == CHOOSE h \in hs : h.id = habit_id

\* the ids of a listing
ListedIds(listing) == {listing[i].id : i \in DOMAIN listing}

\* C6: the first deactivation of an active habit by its owner returns true and
\* flips the habit to inactive, after which it is not listed; a deactivation of
\* an inactive habit returns false and changes nothing; an inactive habit stays
\* inactive, so every later call returns false.
C6_DeactivateIdempotent ==
    [][/\ DeactivateStep =>
            LET u == last'.args[1]
                h == last'.args[2]
            IN  /\ ActiveHabitOf(habits, u, h) =>
                     /\ last'.ret = TRUE
                     /\ HabitRow(habits', h).is_active = 0
                     /\ h \notin ListedIds(list_habits(habits', u))
                /\ (\E r \in habits : r.id = h /\ r.user_id = u /\ r.is_active = 0) =>
                     last'.ret = FALSE /\ UNCHANGED tables
                /\ ~ActiveHabitOf(habits', u, h)
                /\ DeactivateRows(habits', u, h) = habits'
       /\ \A r \in habits : r.is_active = 0 => r \in habits']_vars

\* a second deactivation by the owner has just returned false
C6_Witness ==
    /\ last.op = "deactivate_habit_for_user"
    /\ last.ret = FALSE
    /\ \E r \in habits : r.id = last.args[2] /\ r.user_id = last.args[1] /\ r.is_active = 0

\* C7: a deactivation by a user who does not own the habit returns false and
\* changes nothing: an active habit stays active and listed for its owner.
C7_DeactivateCrossUser ==
    [][DeactivateStep /\ (\E r \in habits : r.id = last'.args[2] /\ r.user_id # last'.args[1]) =>
        LET r == HabitRow(habits, last'.args[2])
        IN  /\ last'.ret = FALSE
            /\ UNCHANGED tables
            /\ r.is_active = 1 =>
                 /\ HabitRow(habits', r.id).is_active = 1
                 /\ r.id \in ListedIds(list_habits(habits', r.user_id))]_vars

\* a deactivation by another user has just failed on an active habit
C7_Witness ==
    /\ last.op = "deactivate_habit_for_user"
    /\ last.ret = FALSE
    /\ \E r \in habits : r.id = last.args[2] /\ r.user_id # last.args[1] /\ r.is_active = 1

\* C8: a successful deactivation changes the active flag of its habit and
\* nothing else: the row stays, with its id, owner and title; every other habit
\* row, every log row and every user row is as before.
C8_DeactivateSoftDelete ==
    [][DeactivateStep /\ last'.ret = TRUE =>
        LET h == last'.args[2]
        IN  /\ habits' = (habits \ {HabitRow(habits, h)})
                           \cup {[HabitRow(habits, h) EXCEPT !.is_active = 0]}
            /\ Cardinality(habits') = Cardinality(habits)
            /\ UNCHANGED <<users, users_seq, habits_seq, habit_logs>>]_vars

\* a habit with a log row has just been deactivated and the row is still there
C8_Witness ==
    /\ last.op = "deactivate_habit_for_user"
    /\ last.ret = TRUE
    /\ \E d \in Dates : IsDone(habit_logs, last.args[2], d)
    /\ Cardinality(habits) = 2

\* how often a title occurs in a listing
TitleCount(listing, title) == Cardinality({i \in DOMAIN listing : listing[i].title = title})

\* C9: after add_habit(u, t) with a title of at least 2 characters after
\* trimming, the listing of u holds the trimmed title exactly once, whatever u
\* added or deactivated before.
C9_AddThenListOnce ==
    [][AddStep =>
        \A t \in Trimmed : IsTrimOf(t, last'.args[2]) /\ Len(t) >= 2 =>
            TitleCount(list_habits(habits', last'.args[1]), t) = 1]_vars

\* C9 as amended: the listing of u holds the new habit exactly once, under the
\* trimmed title, and the trimmed title once more than before the call: exactly
\* once when u had no active habit of that title.
C9_AddThenListOnceMore ==
    [][AddStep =>
        \A t \in Trimmed : IsTrimOf(t, last'.args[2]) /\ Len(t) >= 2 =>
            LET u == last'.args[1]
                before == list_habits(habits, u)
                after == list_habits(habits', u)
            IN  /\ Cardinality({i \in DOMAIN after : after[i].id = last'.ret}) = 1
                /\ \A i \in DOMAIN after : after[i].id = last'.ret => after[i].title = t
                /\ TitleCount(after, t) = TitleCount(before, t) + 1
                /\ TitleCount(before, t) = 0 => TitleCount(after, t) = 1]_vars

\* a habit was added under a padded title by a user with a deactivated habit
C9_Witness ==
    /\ last.op = "add_habit"
    /\ last.args[2] \notin Trimmed
    /\ \E t \in Trimmed :
         /\ IsTrimOf(t, last.args[2])
         /\ TitleCount(list_habits(habits, last.args[1]), t) = 1
    /\ Len(list_habits(habits, last.args[1])) = 1
    /\ \E r \in habits : r.user_id = last.args[1] /\ r.is_active = 0

\* a listing is exactly the active habits of the user, once each, by ascending id
ListingExact(hs, u) ==
    LET l == list_habits(hs, u)
        own == {h \in hs : h.user_id = u /\ h.is_active = 1}
    IN  /\ Len(l) = Cardinality(own)
        /\ \A i \in DOMAIN l : \E h \in own : h.id = l[i].id /\ h.title = l[i].title
        /\ \A h \in own : \E i \in DOMAIN l : l[i].id = h.id
        /\ \A i, j \in DOMAIN l : i < j => l[i].id < l[j].id

\* C10: the listing of every user is exactly that user's active habits, each
\* once, in creation order: ascending id, and add_habit gives every new habit
\* an id above all earlier ones.
C10_ListExactOrdered ==
    [][/\ \A u \in UserIds : ListingExact(habits', u)
       /\ AddStep => \A h \in habits : h.id < last'.ret]_vars

\* a user lists two habits after an add
C10_Witness ==
    /\ last.op = "add_habit"
    /\ \E u \in UserIds : Len(list_habits(habits, u)) = 2

\* the step just taken was a call of upsert_user
UpsertStep == last'.op = "upsert_user"

\* the external ids that have a row
Known(us) == {r.tg_user_id : r \in us}

\* C11: the users table holds one row per external id seen and no two rows share
\* an internal id; a call for an external id returns the id of its row, which is
\* the id it had before the call when it had one and a new id otherwise; the
\* call leaves the row holding its display name, adds no other external id and
\* leaves the rows of the other external ids as they were.
C11_ResolveUpsert ==
    [][/\ \A r, q \in users' : (r.tg_user_id = q.tg_user_id \/ r.id = q.id) => r = q
       /\ UpsertStep =>
            LET tg == last'.args[1]
                name == last'.args[2]
            IN  /\ Known(users') = Known(users) \cup {tg}
                /\ \E r \in users' :
                     r.tg_user_id = tg /\ r.id = last'.ret /\ r.tg_username = name
                /\ \A r \in users : r.tg_user_id = tg => last'.ret = r.id
                /\ tg \notin Known(users) => \A r \in users : r.id # last'.ret
                /\ \A r \in users : r.tg_user_id # tg => r \in users']_vars

\* an external id that was seen before two others is resolved again, under a
\* new display name
C11_Witness ==
    /\ last.op = "upsert_user"
    /\ last.ret = 1
    /\ Cardinality(users) = 3
    /\ last.args[2] = "bob"
    /\ \A r \in users : r.id # 1 => r.tg_username = "ann"

\* the step just taken was a call of mark_done_for_user
MarkStep == last'.op = "mark_done_for_user"

\* C12: mark_done_for_user of an active habit of the caller returns true and
\* leaves the pair done with one row, whether or not a row was there, and the
\* rest of storage as it was; called when the pair is done already it changes
\* nothing, so that any number of repetitions leave the state of the first
\* call.  For a habit that does not exist, is inactive or belongs to another
\* user it returns false and changes no table.
C12_MarkDoneIdempotent ==
    [][MarkStep =>
        LET u == last'.args[1]
            h == last'.args[2]
            d == last'.args[3]
        IN  /\ ActiveHabitOf(habits, u, h) =>
                 /\ last'.ret = TRUE
                 /\ IsDone(habit_logs', h, d)
                 /\ LogCount(habit_logs', h, isoformat(d)) = 1
                 /\ DeleteLog(habit_logs', h, isoformat(d)) = DeleteLog(habit_logs, h, isoformat(d))
                 /\ IsDone(habit_logs, h, d) => habit_logs' = habit_logs
                 /\ MarkDoneForUserLogs(habits', habit_logs', u, h, d) = habit_logs'
                 /\ MarkDoneForUserRet(habits', u, h) = TRUE
            /\ ~ActiveHabitOf(habits, u, h) => last'.ret = FALSE /\ habit_logs' = habit_logs
            /\ UNCHANGED <<users, users_seq, habits, habits_seq>>]_vars

\* a mark has returned true, its pair is done and the log holds other rows
C12_Witness ==
    /\ last.op = "mark_done_for_user"
    /\ last.ret = TRUE
    /\ IsDone(habit_logs, last.args[2], last.args[3])
    /\ BagCardinality(habit_logs) >= 3

\* the step just taken was a call of weekly_status
StatusStep == last'.op = "weekly_status"

\* the pairs of the listed habits and the given days that have a log row
PresentPairs(logs, ids, days) ==
    {<<r.habit_id, r.log_date>> :
        r \in {q \in DOMAIN logs :
                 q.habit_id \in Range(ids) /\ \E d \in days : q.log_date = isoformat(d)}}

\* C13: weekly_status(habitIds, dateRange) with an ascending non-empty
\* dateRange returns the mapping whose keys are exactly the pairs (h, d) with h
\* in habitIds, d in dateRange and a log row present, each mapped to 1; with
\* empty habitIds it returns the empty mapping.
C13_FetchStatuses ==
    [][StatusStep =>
        LET ids == last'.args[1]
            days == last'.args[2]
        IN  /\ DOMAIN last'.ret = PresentPairs(habit_logs, ids, Range(days))
            /\ \A k \in DOMAIN last'.ret : last'.ret[k] = 1
            /\ ids = <<>> => last'.ret = <<>>]_vars

\* the days from the first to the last day of a list
Span(days) == {d \in StatusDates : days[1] <= d /\ d <= days[Len(days)]}

\* C13 as amended: the keys are exactly the pairs (h, d) with h in habitIds, d
\* from the first to the last date of dateRange and a log row present, each
\* mapped to 1: the dates of dateRange itself when it lists consecutive days.
\* With empty habitIds the mapping is empty.
C13_FetchStatusesSpan ==
    [][StatusStep =>
        LET ids == last'.args[1]
            days == last'.args[2]
        IN  /\ DOMAIN last'.ret = PresentPairs(habit_logs, ids, Span(days))
            /\ \A k \in DOMAIN last'.ret : last'.ret[k] = 1
            /\ ids = <<>> => last'.ret = <<>>
            /\ (\A i \in 1..(Len(days) - 1) : days[i + 1] = days[i] + 1) =>
                 DOMAIN last'.ret = PresentPairs(habit_logs, ids, Range(days))]_vars

\* a call for two days with a day between them returned a row of that day
C13_Witness ==
    /\ last.op = "weekly_status"
    /\ last.args[2] = <<738885, 738887>>
    /\ \E k \in DOMAIN last.ret : k[2] = isoformat(738886)
    /\ \E k \in DOMAIN last.ret : k[2] = isoformat(738885)

\* 2024-01-01 was a Monday
IsMonday(d) == (d - 738886) % 7 = 0

\* C14: week_dates(r) is 7 dates, the first a Monday, each the day after the
\* one before it, and r is one of them; for a Sunday r they are the Monday 6
\* days before r to r itself, and for a Monday r they start at r.
C14_WeekRange ==
    last.op = "week_dates" =>
        LET r == last.args[1]
            w == last.ret
        IN  /\ Len(w) = 7
            /\ IsMonday(w[1])
            /\ \A i \in 1..6 : w[i + 1] = w[i] + 1
            /\ \E i \in 1..7 : w[i] = r
            /\ IsMonday(r + 1) => w[1] = r - 6 /\ w[7] = r
            /\ IsMonday(r) => w[1] = r

\* the week of Sunday 2023-12-31 was computed: it starts in the year before
\* the week of the next day
C14_Witness ==
    /\ last.op = "week_dates"
    /\ last.args[1] = 738885
    /\ last.ret[1] = 738879
    /\ last.ret[7] = 738885

\* the step just taken was the title handler's
TitleStep == last'.op = "handle_habit_title"

\* a text without its leading and trailing whitespace
TrimOf(t) ==
    CHOOSE s \in {<<>>} \cup {SubSeq(t, i, j) : i \in 1..Len(t), j \in 1..Len(t)} : IsTrimOf(s, t)

\* a title of at least 2 characters with no whitespace at either end
WellFormed(title) ==
    Len(title) >= 2 /\ title[1] \notin Whitespace /\ title[Len(title)] \notin Whitespace

\* C15: the title handler, given a text of fewer than 2 characters after
\* trimming (or no text), creates no habit row, answers that the name is too
\* short and leaves the sender awaiting a title; every stored title has at
\* least 2 characters and no leading or trailing whitespace.
C15_ShortTitleRejected ==
    [][/\ TitleStep /\ Len(TrimOf(last'.args[2])) < 2 =>
            /\ UNCHANGED <<habits, habits_seq, habit_logs, fsm, pending>>
            /\ last'.ret = "Habit name is too short"
            /\ fsm'[last'.args[1]] = "waiting_for_title"
       /\ \A h \in habits' : WellFormed(h.title)]_vars

\* a text of whitespace only was rejected while a habit was stored already,
\* and the sender is still awaiting a title
C15_Witness ==
    /\ last.op = "handle_habit_title"
    /\ last.args[2] = <<" ">>
    /\ last.ret = "Habit name is too short"
    /\ fsm[last.args[1]] = "waiting_for_title"
    /\ habits # {}

\* the step just taken was the /add handler's
AddCommandStep == last'.op = "add_command"

\* the step just taken was a message of the telegram user tg
MessageOf(tg) ==
    /\ last'.op \in {"start", "add_command", "handle_habit_title", "done_command",
                      "delete_command", "week_command", "unhandled"}
    /\ last'.args[1] = tg

\* C16: /add moves its sender to waiting_for_title and creates nothing; a title
\* of at least 2 characters after trimming, sent by a user who is awaiting one,
\* creates exactly one habit, owned by that user under the trimmed title, and
\* returns the user to the idle state; a habit is created only by the title
\* handler for a sender who was awaiting a title, so a text sent while idle
\* creates none; and a message of one user leaves the state of every other
\* user as it was.
C16_TwoStepAdd ==
    [][/\ AddCommandStep =>
            fsm'[last'.args[1]] = "waiting_for_title" /\ UNCHANGED <<habits, habits_seq>>
       /\ TitleStep /\ Len(TrimOf(last'.args[2])) >= 2 =>
            /\ fsm[last'.args[1]] = "waiting_for_title"
            /\ fsm'[last'.args[1]] = "None"
            /\ Cardinality(habits') = Cardinality(habits) + 1
            /\ \E r \in habits' \ habits, u \in users' :
                 /\ habits' = habits \cup {r}
                 /\ u.tg_user_id = last'.args[1]
                 /\ r.user_id = u.id
                 /\ r.title = TrimOf(last'.args[2])
                 /\ r.is_active = 1
                 /\ r.id = last'.ret
       /\ habits' # habits =>
            /\ TitleStep
            /\ fsm[last'.args[1]] = "waiting_for_title"
            /\ Len(TrimOf(last'.args[2])) >= 2
       /\ \A tg \in TgUsers :
            /\ MessageOf(tg) /\ fsm[tg] = "None" /\ ~AddCommandStep => UNCHANGED <<habits, fsm>>
            /\ MessageOf(tg) => \A other \in TgUsers \ {tg} : fsm'[other] = fsm[other]]_vars

\* a user sent a title and got a habit while the other user, who had sent /add
\* before, is still awaiting a title and owns no habit
C16_Witness ==
    /\ last.op = "handle_habit_title"
    /\ fsm[last.args[1]] = "None"
    /\ \E other \in TgUsers \ {last.args[1]}, u \in users :
         /\ fsm[other] = "waiting_for_title"
         /\ u.tg_user_id = other
         /\ \A h \in habits : h.user_id # u.id
    /\ Cardinality(habits) = 1

\* the commands of the bot and the handler registered for each
Commands == {CmdStart, CmdAdd, CmdDone, CmdDelete, CmdWeek}

HandlerOf(cmd) ==
    CASE cmd = CmdStart -> "start"
      [] cmd = CmdAdd -> "add_command"
      [] cmd = CmdDone -> "done_command"
      [] cmd = CmdDelete -> "delete_command"
      [] cmd = CmdWeek -> "week_command"

\* C17: in every conversational state a message whose text is one of the
\* commands is handled by that command's handler, and no habit is created with
\* the command text as its title.
C17_CommandsDispatched ==
    [][\A tg \in TgUsers :
         MessageOf(tg) /\ last'.args[2] \in Commands =>
            /\ last'.op = HandlerOf(last'.args[2])
            /\ \A h \in habits' \ habits : h.title # last'.args[2]]_vars

\* the log rows of one habit, with their numbers of copies
LogsOf(logs, habit_id) == [r \in {q \in DOMAIN logs : q.habit_id = habit_id} |-> logs[r]]

\* C18: deactivation is permanent and freezes history: a step that leaves a
\* habit inactive, the deactivation itself or any later interaction, leaves
\* the log rows of that habit as they were; an inactive habit keeps its row,
\* inactive, through every step; and no two habit rows share an id, so the id
\* of a deactivated habit is never given to a new one.
C18_DeactivationPermanent ==
    [][/\ \A h \in habits : h.is_active = 0 => h \in habits'
       /\ \A h \in habits' : h.is_active = 0 =>
            LogsOf(habit_logs', h.id) = LogsOf(habit_logs, h.id)
       /\ \A h, g \in habits' : h.id = g.id => h = g
       /\ \A g \in habits' \ habits : g.is_active = 1 => \A h \in habits : h.id < g.id]_vars

\* on the second day the button of a habit deleted on the first day, with its
\* mark of the first day, was pressed and found nothing, after a new habit
\* was added
C18_Witness ==
    /\ last.op = "done_callback"
    /\ last.ret = "None"
    /\ today # FirstDay
    /\ \E h \in habits :
         /\ h.is_active = 0
         /\ last.args[2] = <<DigitChars[h.id + 1]>>
         /\ IsDone(habit_logs, h.id, FirstDay)
         /\ ~IsDone(habit_logs, h.id, today)
         /\ \E g \in habits : g.is_active = 1 /\ g.id > h.id

\* C19: every log row references an existing habit row, and a step that
\* writes a log row writes it for a habit that exists and is active at the
\* time and, when the call names an acting user, belongs to that user.
C19_NoOrphanLogs ==
    [][/\ \A r \in DOMAIN habit_logs' : \E h \in habits' : h.id = r.habit_id
       /\ \A r \in DOMAIN habit_logs' :
            Copies(habit_logs', r) > Copies(habit_logs, r) =>
              \E h \in habits :
                 /\ h.id = r.habit_id
                 /\ h.is_active = 1
                 /\ last'.op \in {"mark_done_for_user", "toggle_done_for_user"} =>
                      h.user_id = last'.args[1]]_vars

\* C20: a press of a toggle button for habit h on day d changes at most the
\* log rows of the pair (h, d): the rows of every other pair, every habit row
\* and the internal id of every user are as before, whether the press marks,
\* removes or finds nothing.
C20_ToggleFrame ==
    [][DoneCallbackStep =>
        /\ UNCHANGED <<habits, habits_seq>>
        /\ last'.ret \in {"Invalid habit", "None"} => habit_logs' = habit_logs
        /\ \A h \in HabitIds :
             last'.args[2] = <<DigitChars[h + 1]>> =>
               \A r \in (DOMAIN habit_logs) \cup (DOMAIN habit_logs') :
                  r.habit_id # h \/ r.log_date # isoformat(today) =>
                    Copies(habit_logs', r) = Copies(habit_logs, r)
        /\ \A r \in users : \E q \in users' : q.id = r.id /\ q.tg_user_id = r.tg_user_id
        /\ \A r, q \in users' : (r.tg_user_id = q.tg_user_id \/ r.id = q.id) => r = q]_vars

\* on the second day a press has removed the mark of its pair while two users
\* are known and the marks of other pairs, of both days, are still there
C20_Witness ==
    /\ last.op = "done_callback"
    /\ last.ret = "removed"
    /\ today # FirstDay
    /\ Cardinality(users) = 2
    /\ \E h, g \in HabitIds :
         /\ h # g
         /\ last.args[2] = <<DigitChars[h + 1]>>
         /\ ~IsDone(habit_logs, h, today)
         /\ IsDone(habit_logs, h, FirstDay)
         /\ IsDone(habit_logs, g, today)

====
